---------------------------- MODULE Spec2Model ----------------------------
(***************************************************************************)
(* A model of the WaPOR indicator engine, src/utils/indicators.py:        *)
(* the INDICATORS_INFO catalog and the IndicatorCalculator class.          *)
(*                                                                         *)
(* Numbers.  numpy's float64 values are modelled by exact rationals        *)
(* extended with NaN and the two infinities: [k, n, d] with k one of       *)
(* "fin" (the value n/d, d > 0, in lowest terms), "nan", "inf" (n = 1 or   *)
(* n = -1).  The raster calculator's pixel values are "fin" or "nodata".   *)
(* Rounding error of the binary representation is not modelled.            *)
(***************************************************************************)
EXTENDS Integers, Sequences, FiniteSets, TLC

-----------------------------------------------------------------------------
(* Bounds of the model *)

\* largest number of pixels (width * height) of a raster given to a
\* one-raster operation
MaxPixels == 4

\* largest number of pixels of each raster given to a two-raster operation
MaxPairPixels == 3

-----------------------------------------------------------------------------
(* Extended rationals *)

Abs(x) == IF x < 0 THEN -x ELSE x

RECURSIVE Gcd(_, _)
Gcd(a, b) == IF b = 0 THEN a ELSE Gcd(b, a % b)

Lcm(a, b) == (a \div Gcd(a, b)) * b

\* the rational n/d (d # 0) in lowest terms with a positive denominator
Fin(n, d) ==
    LET g == Gcd(Abs(n), Abs(d))
        s == IF d < 0 THEN -1 ELSE 1
    IN  [k |-> "fin", n |-> (s * n) \div g, d |-> (s * d) \div g]

Int2F(i) == [k |-> "fin", n |-> i, d |-> 1]
NaN == [k |-> "nan", n |-> 0, d |-> 1]
Inf(s) == [k |-> "inf", n |-> s, d |-> 1]
NoData == [k |-> "nodata", n |-> 0, d |-> 1]

IsFin(x) == x.k = "fin"
IsNaN(x) == x.k = "nan"
IsInf(x) == x.k = "inf"

Sign(i) == IF i > 0 THEN 1 ELSE IF i < 0 THEN -1 ELSE 0

\* x < y for finite x, y
FLess(x, y) == x.n * y.d < y.n * x.d
FLeq(x, y) == x.n * y.d <= y.n * x.d

\* IEEE-754 arithmetic as numpy applies it elementwise (warnings, no exceptions)
NpAdd(x, y) ==
    IF IsNaN(x) \/ IsNaN(y) THEN NaN
    ELSE IF IsInf(x) /\ IsInf(y) THEN (IF x.n = y.n THEN x ELSE NaN)
    ELSE IF IsInf(x) THEN x
    ELSE IF IsInf(y) THEN y
    ELSE LET L == Lcm(x.d, y.d)
         IN  Fin(x.n * (L \div x.d) + y.n * (L \div y.d), L)

NpNeg(x) == IF IsNaN(x) THEN NaN ELSE [x EXCEPT !.n = -x.n]

NpSub(x, y) == NpAdd(x, NpNeg(y))

NpMul(x, y) ==
    IF IsNaN(x) \/ IsNaN(y) THEN NaN
    ELSE IF IsInf(x) \/ IsInf(y)
         THEN (IF Sign(x.n) * Sign(y.n) = 0 THEN NaN ELSE Inf(Sign(x.n) * Sign(y.n)))
    ELSE LET g1 == Gcd(Abs(x.n), y.d)
             g2 == Gcd(Abs(y.n), x.d)
         IN  Fin((x.n \div g1) * (y.n \div g2), (x.d \div g2) * (y.d \div g1))

NpDiv(x, y) ==
    IF IsNaN(x) \/ IsNaN(y) THEN NaN
    ELSE IF IsInf(x) /\ IsInf(y) THEN NaN
    ELSE IF IsInf(x) THEN Inf(x.n * (IF y.n < 0 THEN -1 ELSE 1))
    ELSE IF IsInf(y) THEN Int2F(0)
    ELSE IF y.n = 0 THEN (IF x.n = 0 THEN NaN ELSE Inf(Sign(x.n)))
    ELSE NpMul(x, Fin(y.d, y.n))

\* Python's comparison x < y on floats: False whenever an operand is NaN
PyLess(x, y) ==
    IF IsNaN(x) \/ IsNaN(y) THEN FALSE
    ELSE IF IsInf(x) THEN (x.n < 0 /\ ~(IsInf(y) /\ y.n < 0))
    ELSE IF IsInf(y) THEN y.n > 0
    ELSE FLess(x, y)

PyLeq(x, y) ==
    IF IsNaN(x) \/ IsNaN(y) THEN FALSE
    ELSE x = y \/ PyLess(x, y)

RECURSIVE Pow10(_)
Pow10(e) == IF e = 0 THEN 1 ELSE 10 * Pow10(e - 1)

\* floor of the square root of a natural number, by bisection on lo..hi
RECURSIVE ISqrtIn(_, _, _)
ISqrtIn(y, lo, hi) ==
    IF lo >= hi THEN lo
    ELSE LET mid == (lo + hi + 1) \div 2
         IN  IF mid * mid <= y THEN ISqrtIn(y, mid, hi) ELSE ISqrtIn(y, lo, mid - 1)

ISqrt(y) == ISqrtIn(y, 0, 46340)


-----------------------------------------------------------------------------
(* numpy arrays and their NaN-ignoring reductions *)

\* a 2-D array of shape (h, w); px holds the elements in row-major order
Array(h, w, px) == [h |-> h, w |-> w, px |-> px]

RECURSIVE SeqSum(_)
SeqSum(s) == IF s = <<>> THEN Int2F(0) ELSE NpAdd(Head(s), SeqSum(Tail(s)))

RECURSIVE DropNaN(_)
DropNaN(s) ==
    IF s = <<>> THEN <<>>
    ELSE IF IsNaN(Head(s)) THEN DropNaN(Tail(s))
    ELSE <<Head(s)>> \o DropNaN(Tail(s))

\* np.nanmean: the mean of the elements that are not NaN; NaN when there is none
nanmean(arr) ==
    LET v == DropNaN(arr.px)
    IN  IF v = <<>> THEN NaN ELSE NpDiv(SeqSum(v), Int2F(Len(v)))

RECURSIVE DenLcm(_)
DenLcm(s) == IF s = <<>> THEN 1 ELSE Lcm(Head(s).d, DenLcm(Tail(s)))

RECURSIVE NumGcd(_, _)
NumGcd(s, L) ==
    IF s = <<>> THEN 0 ELSE Gcd(Abs(Head(s).n * (L \div Head(s).d)), NumGcd(Tail(s), L))

RECURSIVE IntSum(_)
IntSum(s) == IF s = <<>> THEN 0 ELSE Head(s) + IntSum(Tail(s))

\* A standard deviation is the square root of a rational; it is kept as
\* c * sqrt(v) with rationals c >= 0 and v >= 0 (k = "fin"), or NaN.
Root(c, v) == IF v.n = 0 \/ c.n = 0
              THEN [k |-> "fin", c |-> Int2F(0), v |-> Int2F(0)]
              ELSE [k |-> "fin", c |-> c, v |-> v]
RootNaN == [k |-> "nan", c |-> Int2F(0), v |-> Int2F(0)]

\* np.nanstd (population standard deviation, ddof = 0) of the elements that are
\* not NaN.  numpy subtracts the mean from every element, so one infinite
\* element makes the result NaN.  The finite case factors the elements as
\* scale * integer and returns scale * sqrt(variance of the integers).
nanstd(arr) ==
    LET v == DropNaN(arr.px)
    IN  IF v = <<>> THEN RootNaN
        ELSE IF \E i \in 1..Len(v) : IsInf(v[i]) THEN RootNaN
        ELSE LET L  == DenLcm(v)
                 g0 == NumGcd(v, L)
                 g  == IF g0 = 0 THEN 1 ELSE g0
                 ks == [i \in 1..Len(v) |-> (v[i].n * (L \div v[i].d)) \div g]
                 N  == Len(v)
                 S  == IntSum(ks)
                 SS == IntSum([i \in 1..N |-> ks[i] * ks[i]])
             IN  Root(Fin(g, L), Fin(N * SS - S * S, N * N))

\* the elements of s (all finite) in ascending order
RECURSIVE Insert(_, _)
Insert(x, s) ==
    IF s = <<>> THEN <<x>>
    ELSE IF FLeq(x, Head(s)) THEN <<x>> \o s
    ELSE <<Head(s)>> \o Insert(x, Tail(s))

RECURSIVE Sorted(_)
Sorted(s) == IF s = <<>> THEN <<>> ELSE Insert(Head(s), Sorted(Tail(s)))

\* np.nanpercentile(a, q) of a 1-D array, default (linear) interpolation: NaN
\* elements are removed, the rest is ranked, and the value at the fractional
\* rank q/100 * (n - 1) is interpolated between its two neighbours
nanpercentile(a1d, q) ==
    LET v == Sorted(DropNaN(a1d))
        n == Len(v)
    IN  IF n = 0 THEN NaN
        ELSE LET lo == (q * (n - 1)) \div 100
                 r  == (q * (n - 1)) % 100
                 hi == IF lo + 1 < n THEN lo + 1 ELSE lo
             IN  NpAdd(v[lo + 1],
                       NpMul(NpSub(v[hi + 1], v[lo + 1]), Fin(r, 100)))

\* np.reshape(a, a.shape[0] * a.shape[1]): the row-major flattening
reshape1d(arr) == arr.px

-----------------------------------------------------------------------------
(* Roots: arithmetic, comparison and rounding of c * sqrt(v) *)

RootInf == [k |-> "inf", c |-> Int2F(0), v |-> Int2F(0)]

\* (r / x) * 100 for a root r >= 0 and a float x >= 0, as numpy divides
RootDivTimes100(r, x) ==
    IF r.k = "nan" \/ IsNaN(x) THEN RootNaN
    ELSE IF x.n = 0 THEN (IF r.v.n = 0 THEN RootNaN ELSE RootInf)
    ELSE Root(NpMul(NpDiv(r.c, x), Int2F(100)), r.v)

\* Python's r < t and t <= r for a root r and an integer t >= 0
RootLess(r, t) ==
    /\ r.k = "fin"
    /\ FLess(NpMul(NpMul(r.c, r.c), r.v), Int2F(t * t))

RootGeq(r, t) ==
    \/ r.k = "inf"
    \/ r.k = "fin" /\ ~FLess(NpMul(NpMul(r.c, r.c), r.v), Int2F(t * t))

\* A/B <= C/D for naturals A, C and positive B, D, by Euclid's algorithm
\* (no product is formed)
RECURSIVE FracLeq(_, _, _, _)
FracLeq(A, B, C, D) ==
    IF A \div B # C \div D THEN A \div B < C \div D
    ELSE IF A % B = 0 THEN TRUE
    ELSE IF C % D = 0 THEN FALSE
    ELSE FracLeq(D, C % D, B, A % B)

\* F * F <= (a/b)^2 * (vn/vd), for F >= 0, a > 0, vn > 0
SqLeq(F, a, b, vn, vd) == F = 0 \/ FracLeq(F * b, a, a * vn, F * b * vd)
SqGeq(F, a, b, vn, vd) == F > 0 /\ FracLeq(a * vn, F * b * vd, F * b, a)

RECURSIVE RootFloorIn(_, _, _, _, _, _)
RootFloorIn(lo, hi, a, b, vn, vd) ==
    IF lo >= hi THEN lo
    ELSE LET mid == (lo + hi + 1) \div 2
         IN  IF SqLeq(mid, a, b, vn, vd)
             THEN RootFloorIn(mid, hi, a, b, vn, vd)
             ELSE RootFloorIn(lo, mid - 1, a, b, vn, vd)

\* round(r, digits) of a root, as numpy rounds (scale, round half to even,
\* unscale); the result is a float
RoundRoot(r, digits) ==
    IF r.k = "nan" THEN NaN
    ELSE IF r.k = "inf" THEN Inf(1)
    ELSE IF r.v.n = 0 THEN Int2F(0)
    ELSE LET s  == NpMul(r.c, Int2F(2 * Pow10(digits)))
             hi == (s.n \div s.d + 1) * (ISqrt(r.v.n \div r.v.d + 1) + 1)
             F  == RootFloorIn(0, hi, s.n, s.d, r.v.n, r.v.d)
             tie == F % 2 = 1 /\ SqGeq(F, s.n, s.d, r.v.n, r.v.d)
             t  == IF tie THEN (IF ((F - 1) \div 2) % 2 = 0 THEN (F - 1) \div 2
                                ELSE (F + 1) \div 2)
                   ELSE (F + 1) \div 2
         IN  Fin(t, Pow10(digits))

\* round(x, digits) of a float, as numpy rounds
Round(x, digits) ==
    IF ~IsFin(x) THEN x
    ELSE LET N   == x.n * Pow10(digits)
             fl  == N \div x.d
             rem == N - fl * x.d
             t   == IF 2 * rem < x.d THEN fl
                    ELSE IF 2 * rem > x.d THEN fl + 1
                    ELSE IF fl % 2 = 0 THEN fl ELSE fl + 1
         IN  Fin(t, Pow10(digits))

-----------------------------------------------------------------------------
(* Paths and raster files *)

\* a path: absolute or relative, and its components
Path(abs, segs) == [abs |-> abs, segs |-> segs]

\* os.path.join(a, b): an absolute b discards a
join(a, b) == IF b.abs THEN b ELSE Path(a.abs, a.segs \o b.segs)

\* What a path resolves to on disk: a single-band raster of h rows and w
\* columns with raw pixel values px (row-major), an optional declared no-data
\* value and an extent; or nothing.
RasterFile(h, w, px, hasNodata, nodata, extent) ==
    [exists |-> TRUE, h |-> h, w |-> w, px |-> px,
     hasNodata |-> hasNodata, nodata |-> nodata, extent |-> extent]

Missing ==
    [exists |-> FALSE, h |-> 0, w |-> 0, px |-> <<>>,
     hasNodata |-> FALSE, nodata |-> 0, extent |-> "null"]

\* ds.GetRasterBand(1).ReadAsArray().astype(np.float64): the raw values of
\* band 1 as floats
ReadAsArray(ds) == Array(ds.h, ds.w, [i \in 1..Len(ds.px) |-> Int2F(ds.px[i])])

\* ras[ras < 0.0] = float('nan'): every element below zero becomes NaN (the
\* comparison is false for NaN)
Mask(ras) ==
    Array(ras.h, ras.w,
          [i \in 1..Len(ras.px) |->
              IF PyLess(ras.px[i], Int2F(0)) THEN NaN ELSE ras.px[i]])

\* a reading that counts the negative raw values as zero
_get_array_zero(ds, nan_value) ==
    Array(ds.h, ds.w,
          [i \in 1..Len(ds.px) |-> IF ds.px[i] < 0 THEN Int2F(0) ELSE Int2F(ds.px[i])])

\* a reading that replaces the values equal to nan_value
_get_array_by_nan_value(ds, nan_value) ==
    Array(ds.h, ds.w,
          [i \in 1..Len(ds.px) |-> IF ds.px[i] = nan_value THEN NaN ELSE Int2F(ds.px[i])])

\* _get_array(ds, nan_value): band 1 as float64 with every value < 0 replaced
\* by NaN; nan_value is not used.  ds is an opened dataset (ds.exists).
_get_array(ds, nan_value) == Mask(ReadAsArray(ds))

\* the default of the nan_value parameter
DefaultNanValue == -9999

\* numpy broadcasting of two 2-D shapes: each axis must agree or be 1
Broadcastable(a, b) ==
    /\ (a.h = b.h \/ a.h = 1 \/ b.h = 1)
    /\ (a.w = b.w \/ a.w = 1 \/ b.w = 1)

Max(x, y) == IF x >= y THEN x ELSE y

\* element (i, j), 0-based, of the array a broadcast to a larger shape
BcAt(a, i, j) ==
    a.px[(IF a.h = 1 THEN 0 ELSE i) * a.w + (IF a.w = 1 THEN 0 ELSE j) + 1]

\* a / b * 100 elementwise with broadcasting (Broadcastable(a, b) holds)
DivTimes100(a, b) ==
    LET H == Max(a.h, b.h)
        W == Max(a.w, b.w)
    IN  Array(H, W,
              [p \in 1..(H * W) |->
                  NpMul(NpDiv(BcAt(a, (p - 1) \div W, (p - 1) % W),
                              BcAt(b, (p - 1) \div W, (p - 1) % W)),
                        Int2F(100))])

\* each element of a multiplied by the scalar c
Scale(a, c) == Array(a.h, a.w, [p \in 1..Len(a.px) |-> NpMul(a.px[p], c)])

-----------------------------------------------------------------------------
(* Numeric literals in calculator expressions *)

\* most fractional digits of a formatted number
DecimalDigits == 6

\* str(x) / '{}'.format(x) of a float: "nan", "inf", or the shortest decimal
\* that reads back as x, with at least one fractional digit: mantissa m and
\* e fractional digits (28.5 is m = 285, e = 1).  The rationals formatted
\* here have denominators dividing 10^DecimalDigits.
Format(x) ==
    IF IsNaN(x) THEN [w |-> "nan", m |-> 0, e |-> 0]
    ELSE IF IsInf(x) THEN [w |-> IF x.n > 0 THEN "inf" ELSE "-inf", m |-> 0, e |-> 0]
    ELSE LET e == CHOOSE e \in 1..DecimalDigits :
                      /\ Pow10(e) % x.d = 0
                      /\ \A f \in 1..(e - 1) : Pow10(f) % x.d # 0
         IN  [w |-> "num", m |-> x.n * (Pow10(e) \div x.d), e |-> e]

\* a literal written in the source text of an expression
Literal(m, e) == [w |-> "num", m |-> m, e |-> e]

\* the value the calculator's parser reads from a numeric literal
ParseLit(lit) == Fin(lit.m, Pow10(lit.e))

-----------------------------------------------------------------------------
(* The raster calculator (QgsRasterCalculator), as the engine invokes it *)

Ref(i) == [t |-> "ref", i |-> i]
Lit(lit) == [t |-> "lit", lit |-> lit]
Bin(op, l, r) == [t |-> "bin", op |-> op, l |-> l, r |-> r]

\* the expression holds a word that is no number ("nan", "inf")
RECURSIVE Unparsable(_)
Unparsable(e) ==
    IF e.t = "ref" THEN FALSE
    ELSE IF e.t = "lit" THEN e.lit.w # "num"
    ELSE Unparsable(e.l) \/ Unparsable(e.r)

\* the calculator's arithmetic: no-data operands give no-data, and so does a
\* division by zero
QOp(op, x, y) ==
    IF x.k = "nodata" \/ y.k = "nodata" THEN NoData
    ELSE IF op = "+" THEN NpAdd(x, y)
    ELSE IF op = "-" THEN NpSub(x, y)
    ELSE IF op = "*" THEN NpMul(x, y)
    ELSE IF y.n = 0 THEN NoData
    ELSE NpDiv(x, y)

\* the pixel of layer f seen at cell (i, j), 0-based, of an H x W grid over the
\* extent ext: the nearest source pixel; no-data where the file declares the
\* raw value as no-data, and everywhere if the layer lies outside the extent
ReadCell(f, ext, H, W, i, j) ==
    IF f.extent # ext THEN NoData
    ELSE LET si  == ((2 * i + 1) * f.h) \div (2 * H)
             sj  == ((2 * j + 1) * f.w) \div (2 * W)
             raw == f.px[si * f.w + sj + 1]
         IN  IF f.hasNodata /\ raw = f.nodata THEN NoData ELSE Int2F(raw)

RECURSIVE Eval(_, _, _, _, _, _, _)
Eval(e, entries, ext, H, W, i, j) ==
    IF e.t = "ref" THEN ReadCell(entries[e.i].raster, ext, H, W, i, j)
    ELSE IF e.t = "lit" THEN ParseLit(e.lit)
    ELSE QOp(e.op, Eval(e.l, entries, ext, H, W, i, j),
                   Eval(e.r, entries, ext, H, W, i, j))

\* QgsRasterLayer(path): the layer of the file f found at the path
QgsRasterLayer(path, f) == [path |-> path, file |-> f]

\* a QgsRasterCalculatorEntry
Entry(ref, layer) == [ref |-> ref, raster |-> layer.file, path |-> layer.path, bandNumber |-> 1]

\* QgsRasterCalculator(formula, output, 'GTiff', extent, width, height, entries)
QgsRasterCalculator(expr, output, extent, width, height, entries) ==
    [invoked |-> TRUE, expr |-> expr, output |-> output, extent |-> extent,
     width |-> width, height |-> height, entries |-> entries]

NoCalc ==
    [invoked |-> FALSE, expr |-> Lit(Literal(0, 0)), output |-> Path(FALSE, <<>>),
     extent |-> "null", width |-> 0, height |-> 0, entries |-> <<>>]

NoRaster == [written |-> FALSE, h |-> 0, w |-> 0, px |-> <<>>, extent |-> "null"]

\* calc.processCalculation(): the status, and the raster written on success.
\* The expression is parsed first, then the input layers are checked, then
\* the output file is created (writable: the environment lets it).
processCalculation(calc, writable) ==
    IF Unparsable(calc.expr) THEN [status |-> "ParserError", out |-> NoRaster]
    ELSE IF \E n \in 1..Len(calc.entries) : ~calc.entries[n].raster.exists
         THEN [status |-> "InputLayerError", out |-> NoRaster]
    ELSE IF ~writable THEN [status |-> "CreateOutputError", out |-> NoRaster]
    ELSE [status |-> "Success",
          out |-> [written |-> TRUE, h |-> calc.height, w |-> calc.width,
                   extent |-> calc.extent,
                   px |-> [p \in 1..(calc.height * calc.width) |->
                             Eval(calc.expr, calc.entries, calc.extent,
                                  calc.height, calc.width,
                                  (p - 1) \div calc.width, (p - 1) % calc.width)]]]

-----------------------------------------------------------------------------
(* The indicator catalog *)

RasterSlot(types) == [kind |-> "raster", type |-> types]
FactorSlot(codes) == [kind |-> "factors", type |-> codes]
EmptySlot == [kind |-> "empty", type |-> <<>>]

Info(rasters, factors, p1, p2, p3) ==
    [rasters |-> rasters, factors |-> factors,
     params |-> [PARAM_1 |-> p1, PARAM_2 |-> p2, PARAM_3 |-> p3]]

\* INDICATORS_INFO: per indicator, the keys of 'rasters', the keys of
\* 'factors' and the three 'params' slots (labels and descriptions left out)
INDICATORS_INFO ==
    [n \in {"Uniformity of Water Consumption", "Beneficial Fraction",
            "Adequacy (Relative Evapotranspiration)", "Relative Water Deficit",
            "Total Biomass Production", "Biomass Water Productivity",
            "Yield", "Crop Water Productivity"} |->
      CASE n = "Uniformity of Water Consumption" ->
             Info({"AETI"}, {"sd_raster", "mean_raster"},
                  RasterSlot(<<"AETI">>), EmptySlot, EmptySlot)
        [] n = "Beneficial Fraction" ->
             Info({"AETI", "T"}, {},
                  RasterSlot(<<"T">>), RasterSlot(<<"AETI">>), EmptySlot)
        [] n = "Adequacy (Relative Evapotranspiration)" ->
             Info({"ETa", "ETp"}, {},
                  RasterSlot(<<"AETI">>), EmptySlot, EmptySlot)
        [] n = "Relative Water Deficit" ->
             Info({"AETI"}, {"ETx"},
                  RasterSlot(<<"AETI">>), EmptySlot, EmptySlot)
        [] n = "Total Biomass Production" ->
             Info({"NPP"}, {},
                  RasterSlot(<<"NPP">>), EmptySlot, EmptySlot)
        [] n = "Biomass Water Productivity" ->
             Info({"AETI", "TBP"}, {},
                  RasterSlot(<<"AETI">>), RasterSlot(<<"TBP">>), EmptySlot)
        [] n = "Yield" ->
             Info({"TBP"}, {},
                  RasterSlot(<<"TBP">>), EmptySlot,
                  FactorSlot(<<"MC", "fc", "AOT", "HI">>))
        [] n = "Crop Water Productivity" ->
             Info({"Y", "AETI"}, {},
                  RasterSlot(<<"Y">>), RasterSlot(<<"AETI">>), EmptySlot)]

-----------------------------------------------------------------------------
(* State *)

VARIABLES
    plugin_dir,   \* self.plugin_dir
    rasters_dir,  \* self.rasters_dir
    catalog,      \* the module-level INDICATORS_INFO
    pc,           \* "idle": no call in progress; "returned": a call has ended
    op,           \* the last call: the method and its arguments
    opened,       \* the paths the call opened for reading, in order
    files,        \* what those paths resolved to
    label,        \* the text the call set on outLabel
    calc,         \* the raster calculator the call built
    status,       \* what processCalculation returned ("none": not invoked)
    output,       \* the raster the calculator wrote
    outcome,      \* how the call ended: "None", "0" or the exception raised
    lastPath,     \* history: the argument the rasters directory was last set from
    loaded,       \* the array a direct call of _get_array returned
    events        \* the call's setText and processCalculation, in order

vars == <<plugin_dir, rasters_dir, catalog, pc, op, opened, files, label,
          calc, status, output, outcome, lastPath, loaded, events>>

NoArray == Array(0, 0, <<>>)

\* a call: the method's name, the raster names, the output name (if any) and
\* the scalar factors it was given
Call(name, ins, outs, factors) ==
    [name |-> name, ins |-> ins, outs |-> outs, factors |-> factors]
NoCall == Call("none", <<>>, <<>>, <<>>)

NoText == [set |-> FALSE, fmt |-> "", a |-> NaN, b |-> NaN, tier |-> ""]
Text(fmt, a, b, tier) == [set |-> TRUE, fmt |-> fmt, a |-> a, b |-> b, tier |-> tier]

MeanStdText(m, sd) ==
    Text("mean = {}, \nstandard deviation = {}", Round(m, 2), RoundRoot(sd, 2), "")

SizeErrorText == Text("Error: The two Rasters have different sizes!", NaN, NaN, "")

\* IndicatorCalculator(plugin_dir, rasters_path)
Construct(dir, rasters_path) ==
    /\ plugin_dir = dir
    /\ rasters_dir = join(dir, rasters_path)
    /\ lastPath = rasters_path
    /\ catalog = INDICATORS_INFO
    /\ pc = "idle"
    /\ op = NoCall
    /\ opened = <<>>
    /\ files = <<>>
    /\ label = NoText
    /\ calc = NoCalc
    /\ status = "none"
    /\ output = NoRaster
    /\ outcome = "None"
    /\ loaded = NoArray
    /\ events = <<>>

\* an ending that leaves the first path the call resolved in rasters_dir
Finish_rooted(call, paths, fs, text, c, st, out, how, evs) ==
    /\ pc = "idle"
    /\ pc' = "returned"
    /\ op' = call
    /\ opened' = paths
    /\ files' = fs
    /\ label' = text
    /\ calc' = c
    /\ status' = st
    /\ output' = out
    /\ outcome' = how
    /\ loaded' = NoArray
    /\ events' = evs
    /\ rasters_dir' = IF paths = <<>> THEN rasters_dir ELSE paths[1]
    /\ UNCHANGED <<plugin_dir, catalog, lastPath>>

\* what a call leaves behind when it ends; evs: its setText and
\* processCalculation in the order it made them
Finish(call, paths, fs, text, c, st, out, how, evs) ==
    /\ pc = "idle"
    /\ pc' = "returned"
    /\ op' = call
    /\ opened' = paths
    /\ files' = fs
    /\ label' = text
    /\ calc' = c
    /\ status' = st
    /\ output' = out
    /\ outcome' = how
    /\ loaded' = NoArray
    /\ events' = evs
    /\ UNCHANGED <<plugin_dir, rasters_dir, catalog, lastPath>>

\* a call that ran the calculator (if it built one) before it set the label
\* (if it set it)
Ends(call, paths, fs, text, c, st, out, how) ==
    Finish(call, paths, fs, text, c, st, out, how,
           (IF c.invoked THEN <<"processCalculation">> ELSE <<>>)
             \o (IF text.set THEN <<"setText">> ELSE <<>>))

\* a call that sets the label only when the calculator reports success
Calculated_on_success(call, paths, fs, text, c, writable) ==
    LET r == processCalculation(c, writable)
    IN  Ends(call, paths, fs, IF r.status = "Success" THEN text ELSE NoText,
             c, r.status, r.out, "None")

\* a call that built the calculator c and ran it; text is set on the label
\* afterwards, whatever the calculator's status
Calculated(call, paths, fs, text, c, writable) ==
    LET r == processCalculation(c, writable)
    IN  Ends(call, paths, fs, text, c, r.status, r.out, "None")

\* a call that set text on the label first, then built the calculator c and
\* ran it
Published(call, paths, fs, text, c, writable) ==
    LET r == processCalculation(c, writable)
    IN  Finish(call, paths, fs, text, c, r.status, r.out, "None",
               <<"setText", "processCalculation">>)

\* a call ended by the exception exc before any calculator was built
Raised(call, paths, fs, exc) ==
    Ends(call, paths, fs, NoText, NoCalc, "none", NoRaster, exc)

\* the host takes the result; the next call starts from a clean slate
Return ==
    /\ pc = "returned"
    /\ pc' = "idle"
    /\ op' = NoCall
    /\ opened' = <<>>
    /\ files' = <<>>
    /\ label' = NoText
    /\ calc' = NoCalc
    /\ status' = "none"
    /\ output' = NoRaster
    /\ outcome' = "None"
    /\ loaded' = NoArray
    /\ events' = <<>>
    /\ UNCHANGED <<plugin_dir, rasters_dir, catalog, lastPath>>

\* a setter that stores its argument without joining it to plugin_dir
setRastersDir_unjoined(newPath) ==
    /\ pc = "idle"
    /\ rasters_dir' = newPath
    /\ lastPath' = newPath
    /\ UNCHANGED <<plugin_dir, catalog, pc, op, opened, files, label, calc,
                   status, output, outcome, loaded, events>>

setRastersDir(newPath) ==
    /\ pc = "idle"
    /\ rasters_dir' = join(plugin_dir, newPath)
    /\ lastPath' = newPath
    /\ UNCHANGED <<plugin_dir, catalog, pc, op, opened, files, label, calc,
                   status, output, outcome, loaded, events>>

-----------------------------------------------------------------------------
(* The indicator operations.  Each takes the arguments of the method and,   *)
(* after them, what the environment supplies: the file each resolved path   *)
(* leads to, and whether the output file can be created.                    *)

\* the uniformity tier of the coefficient of variation cv
Tier(cv) ==
    IF RootLess(cv, 10) THEN "Good Uniformity"
    ELSE IF RootGeq(cv, 10) /\ RootLess(cv, 25) THEN "Fair Uniformity"
    ELSE "Poor Uniformity"

equity(raster, f) ==
    LET call == Call("equity", <<raster>>, <<>>, <<>>)
        ras_atei_dir == join(rasters_dir, raster)
        atei_band1   == _get_array(f, DefaultNanValue)
        AETIm        == nanmean(atei_band1)
        AETIsd       == nanstd(atei_band1)
        cv           == RootDivTimes100(AETIsd, AETIm)
    IN  IF ~f.exists
        THEN Raised(call, <<ras_atei_dir>>, <<f>>, "AttributeError")
        ELSE Ends(call, <<ras_atei_dir>>, <<f>>,
                  Text("Uniformity in this region is = {}, {}   ",
                       RoundRoot(cv, 1), NaN, Tier(cv)),
                  NoCalc, "none", NoRaster, "None")

\* a beneficial fraction whose expression is ras@1 / ras@2
beneficial_fraction_swapped(ta_dir, aeti_dir, output_name, fa, ft, writable) ==
    LET call == Call("beneficial_fraction", <<ta_dir, aeti_dir>>, <<output_name>>, <<>>)
        ras_atei_dir == join(rasters_dir, aeti_dir)
        ras_ta_dir   == join(rasters_dir, ta_dir)
        output_dir   == join(rasters_dir, output_name)
        ras_atei     == QgsRasterLayer(ras_atei_dir, fa)
        ras_ta       == QgsRasterLayer(ras_ta_dir, ft)
        entries      == <<Entry("ras@1", ras_atei), Entry("ras@2", ras_ta)>>
    IN  Calculated(call, <<ras_atei_dir, ras_ta_dir>>, <<fa, ft>>,
                   NoText,
                   QgsRasterCalculator(Bin("/", Ref(1), Ref(2)), output_dir,
                                       fa.extent, fa.w, fa.h, entries),
                   writable)

beneficial_fraction(ta_dir, aeti_dir, output_name, fa, ft, writable) ==
    LET call == Call("beneficial_fraction", <<ta_dir, aeti_dir>>, <<output_name>>, <<>>)
        ras_atei_dir == join(rasters_dir, aeti_dir)
        ras_ta_dir   == join(rasters_dir, ta_dir)
        output_dir   == join(rasters_dir, output_name)
        ras_atei     == QgsRasterLayer(ras_atei_dir, fa)
        ras_ta       == QgsRasterLayer(ras_ta_dir, ft)
        entries      == <<Entry("ras@1", ras_atei), Entry("ras@2", ras_ta)>>
    IN  Calculated(call, <<ras_atei_dir, ras_ta_dir>>, <<fa, ft>>,
                   NoText,
                   QgsRasterCalculator(Bin("/", Ref(2), Ref(1)), output_dir,
                                       fa.extent, fa.w, fa.h, entries),
                   writable)

\* an adequacy that divides by the 95th percentile
adequacy_p95(aeti_dir, output_name, f, writable) ==
    LET call == Call("adequacy", <<aeti_dir>>, <<output_name>>, <<>>)
        ras_atei_dir == join(rasters_dir, aeti_dir)
        output_dir   == join(rasters_dir, output_name)
        ras_atei     == QgsRasterLayer(ras_atei_dir, f)
        atei_band1   == _get_array(f, DefaultNanValue)
        AETI1_1D     == reshape1d(atei_band1)
        ETp          == nanpercentile(AETI1_1D, 95)
        entries      == <<Entry("ras@1", ras_atei)>>
    IN  IF ~f.exists
        THEN Raised(call, <<ras_atei_dir>>, <<f>>, "AttributeError")
        ELSE Calculated(call, <<ras_atei_dir>>, <<f>>, NoText,
                        QgsRasterCalculator(Bin("/", Ref(1), Lit(Format(ETp))),
                                            output_dir, f.extent, f.w, f.h, entries),
                        writable)

adequacy(aeti_dir, output_name, f, writable) ==
    LET call == Call("adequacy", <<aeti_dir>>, <<output_name>>, <<>>)
        ras_atei_dir == join(rasters_dir, aeti_dir)
        output_dir   == join(rasters_dir, output_name)
        ras_atei     == QgsRasterLayer(ras_atei_dir, f)
        atei_band1   == _get_array(f, DefaultNanValue)
        AETI1_1D     == reshape1d(atei_band1)
        ETp          == nanpercentile(AETI1_1D, 99)
        entries      == <<Entry("ras@1", ras_atei)>>
    IN  IF ~f.exists
        THEN Raised(call, <<ras_atei_dir>>, <<f>>, "AttributeError")
        ELSE Calculated(call, <<ras_atei_dir>>, <<f>>, NoText,
                        QgsRasterCalculator(Bin("/", Ref(1), Lit(Format(ETp))),
                                            output_dir, f.extent, f.w, f.h, entries),
                        writable)

\* a relative water deficit whose expression divides by the 99th percentile
relative_water_deficit_p99(aeti_dir, output_name, f, writable) ==
    LET call == Call("relative_water_deficit", <<aeti_dir>>, <<output_name>>, <<>>)
        ras_atei_dir == join(rasters_dir, aeti_dir)
        output_dir   == join(rasters_dir, output_name)
        ras_atei     == QgsRasterLayer(ras_atei_dir, f)
        atei_band1   == _get_array(f, DefaultNanValue)
        AETI1_1D     == reshape1d(atei_band1)
        ETx          == nanpercentile(AETI1_1D, 95)
        ETx99        == nanpercentile(AETI1_1D, 99)
        AETI_mean    == nanmean(atei_band1)
        RWD          == NpSub(Int2F(1), NpDiv(AETI_mean, ETx))
        entries      == <<Entry("ras@1", ras_atei)>>
    IN  IF ~f.exists
        THEN Raised(call, <<ras_atei_dir>>, <<f>>, "AttributeError")
        ELSE Published(call, <<ras_atei_dir>>, <<f>>,
                        Text("Relative water deficit = {}", Round(RWD, 2), NaN, ""),
                        QgsRasterCalculator(
                            Bin("-", Lit(Literal(1, 0)),
                                     Bin("/", Ref(1), Lit(Format(ETx99)))),
                            output_dir, f.extent, f.w, f.h, entries),
                        writable)

relative_water_deficit(aeti_dir, output_name, f, writable) ==
    LET call == Call("relative_water_deficit", <<aeti_dir>>, <<output_name>>, <<>>)
        ras_atei_dir == join(rasters_dir, aeti_dir)
        output_dir   == join(rasters_dir, output_name)
        ras_atei     == QgsRasterLayer(ras_atei_dir, f)
        atei_band1   == _get_array(f, DefaultNanValue)
        AETI1_1D     == reshape1d(atei_band1)
        ETx          == nanpercentile(AETI1_1D, 95)
        AETI_mean    == nanmean(atei_band1)
        RWD          == NpSub(Int2F(1), NpDiv(AETI_mean, ETx))
        entries      == <<Entry("ras@1", ras_atei)>>
    IN  IF ~f.exists
        THEN Raised(call, <<ras_atei_dir>>, <<f>>, "AttributeError")
        ELSE Published(call, <<ras_atei_dir>>, <<f>>,
                        Text("Relative water deficit = {}", Round(RWD, 2), NaN, ""),
                        QgsRasterCalculator(
                            Bin("-", Lit(Literal(1, 0)),
                                     Bin("/", Ref(1), Lit(Format(ETx)))),
                            output_dir, f.extent, f.w, f.h, entries),
                        writable)

total_biomass_production(raster, output_name, f, writable) ==
    LET call == Call("total_biomass_production", <<raster>>, <<output_name>>, <<>>)
        ras_npp_dir == join(rasters_dir, raster)
        output_dir  == join(rasters_dir, output_name)
        ras_npp     == QgsRasterLayer(ras_npp_dir, f)
        npp_band1   == _get_array(f, DefaultNanValue)
        TBP         == Scale(Scale(npp_band1, Fin(22222, 1000)), Fin(1, 1000))
        TBPm        == nanmean(TBP)
        TBPsd       == nanstd(TBP)
        entries     == <<Entry("ras@1", ras_npp)>>
    IN  IF ~f.exists
        THEN Raised(call, <<ras_npp_dir>>, <<f>>, "AttributeError")
        ELSE Calculated(call, <<ras_npp_dir>>, <<f>>,
                        MeanStdText(TBPm, TBPsd),
                        QgsRasterCalculator(
                            Bin("/", Bin("*", Ref(1), Lit(Literal(2222, 2))),
                                     Lit(Literal(1000, 0))),
                            output_dir, f.extent, f.w, f.h, entries),
                        writable)

biomass_water_productivity(aeti_dir, tbp_dir, output_name, fa, ft, writable) ==
    LET call == Call("biomass_water_productivity", <<aeti_dir, tbp_dir>>, <<output_name>>, <<>>)
        ras_atei_dir == join(rasters_dir, aeti_dir)
        ras_tbp_dir  == join(rasters_dir, tbp_dir)
        output_dir   == join(rasters_dir, output_name)
        ras_atei     == QgsRasterLayer(ras_atei_dir, fa)
        ras_tbp      == QgsRasterLayer(ras_tbp_dir, ft)
        aeti_band    == _get_array(fa, DefaultNanValue)
        tbp_band     == _get_array(ft, DefaultNanValue)
        WP           == DivTimes100(tbp_band, aeti_band)
        entries      == <<Entry("ras@1", ras_atei), Entry("ras@2", ras_tbp)>>
        paths        == <<ras_atei_dir, ras_tbp_dir>>
    IN  IF ~fa.exists \/ ~ft.exists
        THEN Raised(call, paths, <<fa, ft>>, "AttributeError")
        ELSE IF ~Broadcastable(tbp_band, aeti_band)
        THEN Ends(call, paths, <<fa, ft>>, SizeErrorText,
                  NoCalc, "none", NoRaster, "0")
        ELSE Calculated(call, paths, <<fa, ft>>,
                        MeanStdText(nanmean(WP), nanstd(WP)),
                        QgsRasterCalculator(
                            Bin("*", Bin("/", Ref(2), Ref(1)), Lit(Literal(100, 0))),
                            output_dir, fa.extent, fa.w, fa.h, entries),
                        writable)

yield_indicator(raster, MC, fc, AOT, HI, output_name, f, writable) ==
    LET call == Call("yield_indicator", <<raster>>, <<output_name>>, <<MC, fc, AOT, HI>>)
        ras_TBP_dir == join(rasters_dir, raster)
        output_dir  == join(rasters_dir, output_name)
        ras_npp     == QgsRasterLayer(ras_TBP_dir, f)
        tbp_band1   == _get_array(f, DefaultNanValue)
        YIELD       == [tbp_band1 EXCEPT !.px =
                          [p \in 1..Len(tbp_band1.px) |->
                             NpMul(NpMul(NpMul(HI, AOT), fc),
                                   NpDiv(tbp_band1.px[p], NpSub(Int2F(1), MC)))]]
        entries     == <<Entry("ras@1", ras_npp)>>
    IN  IF ~f.exists
        THEN Raised(call, <<ras_TBP_dir>>, <<f>>, "AttributeError")
        ELSE Calculated(call, <<ras_TBP_dir>>, <<f>>,
                        MeanStdText(nanmean(YIELD), nanstd(YIELD)),
                        QgsRasterCalculator(
                            Bin("*", Bin("*", Bin("*", Lit(Format(HI)), Lit(Format(AOT))),
                                              Lit(Format(fc))),
                                     Bin("/", Ref(1),
                                              Bin("-", Lit(Literal(1, 0)), Lit(Format(MC))))),
                            output_dir, f.extent, f.w, f.h, entries),
                        writable)

\* a crop water productivity that takes the width from the Y raster
crop_water_productivity_y_width(y_dir, aeti_dir, output_name, fy, fa, writable) ==
    LET call == Call("crop_water_productivity", <<y_dir, aeti_dir>>, <<output_name>>, <<>>)
        ras_y_dir    == join(rasters_dir, y_dir)
        ras_atei_dir == join(rasters_dir, aeti_dir)
        output_dir   == join(rasters_dir, output_name)
        ras_y        == QgsRasterLayer(ras_y_dir, fy)
        ras_atei     == QgsRasterLayer(ras_atei_dir, fa)
        y_band       == _get_array(fy, DefaultNanValue)
        aeti_band    == _get_array(fa, DefaultNanValue)
        cWP          == DivTimes100(y_band, aeti_band)
        entries      == <<Entry("ras@1", ras_y), Entry("ras@2", ras_atei)>>
        paths        == <<ras_y_dir, ras_atei_dir>>
    IN  IF ~fy.exists \/ ~fa.exists
        THEN Raised(call, paths, <<fy, fa>>, "AttributeError")
        ELSE IF ~Broadcastable(y_band, aeti_band)
        THEN Ends(call, paths, <<fy, fa>>, SizeErrorText,
                  NoCalc, "none", NoRaster, "0")
        ELSE Calculated(call, paths, <<fy, fa>>,
                        MeanStdText(nanmean(cWP), nanstd(cWP)),
                        QgsRasterCalculator(
                            Bin("*", Bin("/", Ref(1), Ref(2)), Lit(Literal(100, 0))),
                            output_dir, fa.extent, fy.w, fa.h, entries),
                        writable)

crop_water_productivity(y_dir, aeti_dir, output_name, fy, fa, writable) ==
    LET call == Call("crop_water_productivity", <<y_dir, aeti_dir>>, <<output_name>>, <<>>)
        ras_y_dir    == join(rasters_dir, y_dir)
        ras_atei_dir == join(rasters_dir, aeti_dir)
        output_dir   == join(rasters_dir, output_name)
        ras_y        == QgsRasterLayer(ras_y_dir, fy)
        ras_atei     == QgsRasterLayer(ras_atei_dir, fa)
        y_band       == _get_array(fy, DefaultNanValue)
        aeti_band    == _get_array(fa, DefaultNanValue)
        cWP          == DivTimes100(y_band, aeti_band)
        entries      == <<Entry("ras@1", ras_y), Entry("ras@2", ras_atei)>>
        paths        == <<ras_y_dir, ras_atei_dir>>
    IN  IF ~fy.exists \/ ~fa.exists
        THEN Raised(call, paths, <<fy, fa>>, "AttributeError")
        ELSE IF ~Broadcastable(y_band, aeti_band)
        THEN Ends(call, paths, <<fy, fa>>, SizeErrorText,
                  NoCalc, "none", NoRaster, "0")
        ELSE Calculated(call, paths, <<fy, fa>>,
                        MeanStdText(nanmean(cWP), nanstd(cWP)),
                        QgsRasterCalculator(
                            Bin("*", Bin("/", Ref(1), Ref(2)), Lit(Literal(100, 0))),
                            output_dir, fa.extent, fa.w, fa.h, entries),
                        writable)

\* 1.0 - (ras@1 - ras@2) / V, the expression of the two ratio indicators
RatioExpr(V) ==
    Bin("-", Lit(Literal(10, 1)),
             Bin("/", Bin("-", Ref(1), Ref(2)), Lit(Format(V))))

overall_consumed_ratio(aeti_dir, pcp_dir, output_name, V_ws, fa, fp, writable) ==
    LET call == Call("overall_consumed_ratio", <<aeti_dir, pcp_dir>>, <<output_name>>, <<V_ws>>)
        ras_atei_dir == join(rasters_dir, aeti_dir)
        ras_pcp_dir  == join(rasters_dir, pcp_dir)
        output_dir   == join(rasters_dir, output_name)
        ras_atei     == QgsRasterLayer(ras_atei_dir, fa)
        ras_pcp      == QgsRasterLayer(ras_pcp_dir, fp)
        entries      == <<Entry("ras@1", ras_atei), Entry("ras@2", ras_pcp)>>
    IN  Calculated(call, <<ras_atei_dir, ras_pcp_dir>>, <<fa, fp>>,
                   NoText,
                   QgsRasterCalculator(RatioExpr(V_ws), output_dir,
                                       fa.extent, fa.w, fa.h, entries),
                   writable)

field_application_ratio(aeti_dir, pcp_dir, output_name, V_wd, fa, fp, writable) ==
    LET call == Call("field_application_ratio", <<aeti_dir, pcp_dir>>, <<output_name>>, <<V_wd>>)
        ras_atei_dir == join(rasters_dir, aeti_dir)
        ras_pcp_dir  == join(rasters_dir, pcp_dir)
        output_dir   == join(rasters_dir, output_name)
        ras_atei     == QgsRasterLayer(ras_atei_dir, fa)
        ras_pcp      == QgsRasterLayer(ras_pcp_dir, fp)
        entries      == <<Entry("ras@1", ras_atei), Entry("ras@2", ras_pcp)>>
    IN  Calculated(call, <<ras_atei_dir, ras_pcp_dir>>, <<fa, fp>>,
                   NoText,
                   QgsRasterCalculator(RatioExpr(V_wd), output_dir,
                                       fa.extent, fa.w, fa.h, entries),
                   writable)

depleted_fraction(aeti_dir, pcp_dir, output_name, V_c, fa, fp, writable) ==
    LET call == Call("depleted_fraction", <<aeti_dir, pcp_dir>>, <<output_name>>, <<V_c>>)
        ras_atei_dir == join(rasters_dir, aeti_dir)
        ras_pcp_dir  == join(rasters_dir, pcp_dir)
        output_dir   == join(rasters_dir, output_name)
        ras_atei     == QgsRasterLayer(ras_atei_dir, fa)
        ras_pcp      == QgsRasterLayer(ras_pcp_dir, fp)
        entries      == <<Entry("ras@1", ras_atei), Entry("ras@2", ras_pcp)>>
    IN  Calculated(call, <<ras_atei_dir, ras_pcp_dir>>, <<fa, fp>>,
                   NoText,
                   QgsRasterCalculator(
                       Bin("-", Lit(Literal(10, 1)),
                                Bin("/", Ref(1), Bin("+", Ref(2), Lit(Format(V_c))))),
                       output_dir, fa.extent, fa.w, fa.h, entries),
                   writable)

\* a direct call of _get_array on what gdal.Open gave for a path: the array
\* is handed back to the caller; None (no file) has no GetRasterBand
get_array(ds, nan_value) ==
    LET call == Call("_get_array", <<>>, <<>>, <<Int2F(nan_value)>>)
    IN  IF ~ds.exists
        THEN Raised(call, <<>>, <<ds>>, "AttributeError")
        ELSE /\ pc = "idle"
             /\ pc' = "returned"
             /\ op' = call
             /\ opened' = <<>>
             /\ files' = <<ds>>
             /\ label' = NoText
             /\ calc' = NoCalc
             /\ status' = "none"
             /\ output' = NoRaster
             /\ outcome' = "ndarray"
             /\ loaded' = _get_array(ds, nan_value)
             /\ events' = <<>>
             /\ UNCHANGED <<plugin_dir, rasters_dir, catalog, lastPath>>

crop_yield ==
    Raised(Call("crop_yield", <<>>, <<>>, <<>>), <<>>, <<>>, "NotImplementedError")

-----------------------------------------------------------------------------
(* Inputs *)

\* largest number of pixels of a raster in the specification of the whole
\* engine
MaxSamplePixels == 2

\* raw pixel values: the no-data sentinel, another negative value, zero and
\* three positive values
RawVals == {-9999, -1, 0, 10, 20, 30}
PairVals == {-9999, 0, 10}
SampleVals == {-9999, 10}

Shapes(maxPx) == {sh \in (1..maxPx) \X (1..maxPx) : sh[1] * sh[2] <= maxPx}

\* the shapes that are at least as wide as tall
WideShapes(maxPx) == {sh \in Shapes(maxPx) : sh[1] <= sh[2]}

\* the rasters of the given shapes with raw values in vals; hasNd: whether
\* the file declares -9999 as its no-data value
Files(shapes, vals, hasNd, exts) ==
    UNION {{RasterFile(sh[1], sh[2], px, nd, -9999, ext) :
               px \in [1..(sh[1] * sh[2]) -> vals], nd \in hasNd, ext \in exts} :
           sh \in shapes}

OneFiles == Files(WideShapes(MaxPixels), RawVals, {TRUE}, {"E1"}) \cup {Missing}
PairFiles == Files(WideShapes(MaxPairPixels), PairVals, {TRUE}, {"E1"})
SampleFiles ==
    Files(Shapes(MaxSamplePixels), SampleVals, {TRUE}, {"E1", "E2"})
        \cup Files(Shapes(MaxSamplePixels), SampleVals, {FALSE}, {"E1"}) \cup {Missing}

\* pairs of rasters of one shape: an AETI raster (the denominator), which may
\* or may not declare -9999 as its no-data value, and a raster of other values
DenVals == {-9999, 0, 10}
NumVals == {-9999, 0, 20}
SameShaped ==
    UNION {Files({sh}, DenVals, BOOLEAN, {"E1"}) \X Files({sh}, NumVals, {TRUE}, {"E1"}) :
           sh \in WideShapes(MaxPairPixels)}

\* values given for the nan_value parameter of _get_array
NanValues == {DefaultNanValue, 0, 255}

PluginDir == Path(TRUE, <<"plugin">>)
DirArgs == {Path(FALSE, <<"rasters">>), Path(FALSE, <<"layers", "wapor">>),
            Path(TRUE, <<"data">>)}
RasterNames == {Path(FALSE, <<"a.tif">>), Path(FALSE, <<"sub", "b.tif">>)}
\* two different raster names
NamePairs == {np \in RasterNames \X RasterNames : np[1] # np[2]}
OutName == Path(FALSE, <<"out.tif">>)
InName == Path(FALSE, <<"a.tif">>)
InName2 == Path(FALSE, <<"sub", "b.tif">>)

\* scalar factors of yield_indicator: moisture content, and (fc, AOT, HI)
MCs == {Int2F(0), Fin(7, 10), Int2F(1)}
Fcs == {Fin(8, 5)}
AOTs == {Fin(4, 5)}
HIs == {Fin(1, 2)}
\* volumes given to the ratio indicators
Volumes == {Int2F(0), Int2F(40)}

-----------------------------------------------------------------------------
(* Specifications *)

Init == Construct(PluginDir, Path(FALSE, <<"rasters">>))

\* the whole engine: every operation, on a few small rasters, with the
\* rasters directory changing between calls
Next ==
    \/ pc = "idle" /\ \E p \in DirArgs : setRastersDir(p)
    \/ pc = "idle" /\ \E n \in RasterNames, f \in SampleFiles : equity(n, f)
    \/ pc = "idle" /\ \E np \in NamePairs, fa, ft \in SampleFiles, wr \in BOOLEAN :
          beneficial_fraction(np[1], np[2], OutName, fa, ft, wr)
    \/ pc = "idle" /\ \E n \in RasterNames, f \in SampleFiles, wr \in BOOLEAN :
          adequacy(n, OutName, f, wr)
    \/ pc = "idle" /\ \E n \in RasterNames, f \in SampleFiles, wr \in BOOLEAN :
          relative_water_deficit(n, OutName, f, wr)
    \/ pc = "idle" /\ \E n \in RasterNames, f \in SampleFiles, wr \in BOOLEAN :
          total_biomass_production(n, OutName, f, wr)
    \/ pc = "idle" /\ \E np \in NamePairs, fa, ft \in SampleFiles, wr \in BOOLEAN :
          biomass_water_productivity(np[1], np[2], OutName, fa, ft, wr)
    \/ pc = "idle" /\ \E n \in RasterNames, MC \in MCs, fc \in Fcs, AOT \in AOTs, HI \in HIs,
          f \in SampleFiles, wr \in BOOLEAN :
          yield_indicator(n, MC, fc, AOT, HI, OutName, f, wr)
    \/ pc = "idle" /\ \E np \in NamePairs, fy, fa \in SampleFiles, wr \in BOOLEAN :
          crop_water_productivity(np[1], np[2], OutName, fy, fa, wr)
    \/ pc = "idle" /\ \E np \in NamePairs, V \in Volumes,
          fa, fp \in SampleFiles, wr \in BOOLEAN :
          overall_consumed_ratio(np[1], np[2], OutName, V, fa, fp, wr)
    \/ pc = "idle" /\ \E np \in NamePairs, V \in Volumes,
          fa, fp \in SampleFiles, wr \in BOOLEAN :
          field_application_ratio(np[1], np[2], OutName, V, fa, fp, wr)
    \/ pc = "idle" /\ \E np \in NamePairs, V \in Volumes,
          fa, fp \in SampleFiles, wr \in BOOLEAN :
          depleted_fraction(np[1], np[2], OutName, V, fa, fp, wr)
    \/ pc = "idle" /\ crop_yield
    \/ Return

Spec == Init /\ [][Next]_vars

\* the one-raster operations on every raster of at most MaxPixels pixels
NextOne ==
    \/ pc = "idle" /\ \E f \in OneFiles : equity(InName, f)
    \/ pc = "idle" /\ \E f \in OneFiles : adequacy(InName, OutName, f, TRUE)
    \/ pc = "idle" /\ \E f \in OneFiles : relative_water_deficit(InName, OutName, f, TRUE)
    \/ pc = "idle" /\ \E f \in OneFiles : total_biomass_production(InName, OutName, f, TRUE)
    \/ pc = "idle" /\ \E MC \in MCs, fc \in Fcs, AOT \in AOTs, HI \in HIs, f \in OneFiles :
          yield_indicator(InName, MC, fc, AOT, HI, OutName, f, TRUE)
    \/ Return

SpecOne == Init /\ [][NextOne]_vars

\* the two-raster operations on every pair of rasters of at most
\* MaxPairPixels pixels each
NextTwo ==
    \/ pc = "idle" /\ \E fa, ft \in PairFiles :
          beneficial_fraction(InName2, InName, OutName, fa, ft, TRUE)
    \/ pc = "idle" /\ \E fa, ft \in PairFiles :
          biomass_water_productivity(InName, InName2, OutName, fa, ft, TRUE)
    \/ pc = "idle" /\ \E fy, fa \in PairFiles :
          crop_water_productivity(InName2, InName, OutName, fy, fa, TRUE)
    \/ pc = "idle" /\ \E V \in Volumes, fa, fp \in PairFiles :
          overall_consumed_ratio(InName, InName2, OutName, V, fa, fp, TRUE)
    \/ pc = "idle" /\ \E V \in Volumes, fa, fp \in PairFiles :
          field_application_ratio(InName, InName2, OutName, V, fa, fp, TRUE)
    \/ pc = "idle" /\ \E V \in Volumes, fa, fp \in PairFiles :
          depleted_fraction(InName, InName2, OutName, V, fa, fp, TRUE)
    \/ Return

SpecTwo == Init /\ [][NextTwo]_vars

\* the quotient operations on every pair of rasters of one shape
NextSame ==
    \/ pc = "idle" /\ \E p \in SameShaped :
          beneficial_fraction(InName2, InName, OutName, p[1], p[2], TRUE)
    \/ pc = "idle" /\ \E p \in SameShaped :
          biomass_water_productivity(InName, InName2, OutName, p[1], p[2], TRUE)
    \/ pc = "idle" /\ \E p \in SameShaped :
          crop_water_productivity(InName2, InName, OutName, p[2], p[1], TRUE)
    \/ Return

SpecSame == Init /\ [][NextSame]_vars

\* direct calls of _get_array on every raster of at most MaxPixels pixels
NextLoad ==
    \/ pc = "idle" /\ \E f \in OneFiles, nv \in NanValues : get_array(f, nv)
    \/ Return

SpecLoad == Init /\ [][NextLoad]_vars

-----------------------------------------------------------------------------
(* Reference definitions used by the properties: statistics of the valid   *)
(* raw pixels of a file, computed on the integers                           *)

IsValidRaw(x) == x >= 0
ValidRaw(f) == SelectSeq(f.px, IsValidRaw)

SumSq(s) == IntSum([i \in 1..Len(s) |-> s[i] * s[i]])

\* n * sum of squares - square of the sum: n^2 times the population variance
VarTimesN2(s) == Len(s) * SumSq(s) - IntSum(s) * IntSum(s)

\* the k-th smallest element of the integer sequence s, 1 <= k <= Len(s)
KthSmallest(s, k) ==
    CHOOSE x \in {s[i] : i \in 1..Len(s)} :
        /\ Cardinality({i \in 1..Len(s) : s[i] < x}) < k
        /\ k <= Cardinality({i \in 1..Len(s) : s[i] <= x})

\* the q-th percentile of the non-empty integer sequence s, interpolated
\* linearly between the ranks around q/100 * (n - 1)
RefPercentile(s, q) ==
    LET n  == Len(s)
        lo == (q * (n - 1)) \div 100
        r  == (q * (n - 1)) % 100
        a  == KthSmallest(s, lo + 1)
        b  == KthSmallest(s, IF lo + 2 <= n THEN lo + 2 ELSE n)
    IN  Fin(a * (100 - r) + b * r, 100)

SameShape(f, g) == f.h = g.h /\ f.w = g.w

-----------------------------------------------------------------------------
(* Properties *)

\* C1: whenever the two input rasters of biomass_water_productivity or
\* crop_water_productivity differ in width or height, the call sets the
\* size-error text, builds no raster calculator and writes no raster.
C1_ShapeMismatchAborts ==
    (/\ pc = "returned"
     /\ op.name \in {"biomass_water_productivity", "crop_water_productivity"}
     /\ ~SameShape(files[1], files[2]))
    => (/\ label = SizeErrorText
        /\ ~calc.invoked
        /\ ~output.written)

\* C2: yield_indicator with MC = 1, and overall_consumed_ratio or
\* field_application_ratio with a volume of 0, called on readable rasters,
\* end with InvalidFactor: no raster calculator is built, no raster written
\* and no summary published.
C2_InvalidFactorRejected ==
    (/\ pc = "returned"
     /\ \A i \in 1..Len(files) : files[i].exists
     /\ \/ op.name = "yield_indicator" /\ op.factors[1] = Int2F(1)
        \/ /\ op.name \in {"overall_consumed_ratio", "field_application_ratio"}
           /\ op.factors[1] = Int2F(0))
    => (/\ outcome = "InvalidFactor"
        /\ ~calc.invoked
        /\ ~output.written
        /\ ~label.set)

\* the text's number t/10 is the coefficient of variation 100 * sqrt(p) / S
\* rounded to one decimal: (2t - 1) * S <= 2000 * sqrt(p) <= (2t + 1) * S
IsRoundedCV(x, p, S) ==
    /\ IsFin(x)
    /\ 10 % x.d = 0
    /\ LET t == x.n * (10 \div x.d)
       IN  /\ t >= 0
           /\ (t = 0 \/ p = 0 \/ FracLeq((2 * t - 1) * S, 2000, 2000 * p, (2 * t - 1) * S))
           /\ (IF p = 0 THEN t = 0
               ELSE FracLeq(2000 * p, (2 * t + 1) * S, (2 * t + 1) * S, 2000))

C4_UniformRasterIsGood ==
    (/\ pc = "returned"
     /\ op.name = "equity"
     /\ outcome = "None"
     /\ \A i \in 1..Len(files[1].px) :
           files[1].px[i] >= 0 /\ files[1].px[i] = files[1].px[1])
    => (/\ label.a = Int2F(0)
        /\ label.tier = "Good Uniformity")

\* C5: every valid pixel of the raster total_biomass_production writes is
\* NPP * 22.222 / 1000, the conversion the reported mean is computed with.
C5_TbpRasterUsesSummaryFactor ==
    (pc = "returned" /\ op.name = "total_biomass_production" /\ status = "Success")
    => \A i \in 1..Len(output.px) :
          files[1].px[i] >= 0
          => output.px[i] = Fin(files[1].px[i] * 22222, 1000000)

\* C6: a pixel whose raw value is negative never contributes a finite value
\* to the raster an operation writes.
C6_NegativeRawNeverFinite ==
    (pc = "returned" /\ status = "Success" /\ Len(files) = 1)
    => \A i \in 1..Len(output.px) :
          files[1].px[i] < 0 => ~IsFin(output.px[i])

\* C7: when a raster path does not resolve to a readable raster, the call
\* ends with the structured result RasterNotFound: no exception leaves the
\* operation, no summary is published and no raster is written.
C7_MissingRasterReported ==
    (pc = "returned" /\ \E i \in 1..Len(files) : ~files[i].exists)
    => (/\ outcome = "RasterNotFound"
        /\ ~label.set
        /\ ~output.written)

\* C8: in every catalog entry, each raster role named by a 'params' slot is
\* a key of the entry's 'rasters'.
C8_ParamRolesAreRasters ==
    \A n \in DOMAIN catalog :
        \A slot \in {"PARAM_1", "PARAM_2", "PARAM_3"} :
            catalog[n].params[slot].kind = "raster"
            => \A i \in 1..Len(catalog[n].params[slot].type) :
                  catalog[n].params[slot].type[i] \in catalog[n].rasters

\* C9: every call reads its rasters from, and hands the calculator an output
\* path in, join(plugin_dir, p) joined with the names given to the call,
\* where p is the argument the rasters directory was last set from.
C9_PathsUnderCurrentRoot ==
    pc = "returned"
    => LET root == join(plugin_dir, lastPath)
       IN  /\ {opened[i] : i \in 1..Len(opened)}
                = {join(root, op.ins[j]) : j \in 1..Len(op.ins)}
           /\ \A i \in 1..Len(calc.entries) :
                 \E j \in 1..Len(opened) : calc.entries[i].path = opened[j]
           /\ calc.invoked
              => /\ Len(op.outs) = 1
                 /\ calc.output = join(root, op.outs[1])

C9_Witness ==
    /\ pc = "returned"
    /\ op.name = "relative_water_deficit"
    /\ lastPath = Path(FALSE, <<"layers", "wapor">>)
    /\ opened = <<Path(TRUE, <<"plugin", "layers", "wapor", "sub", "b.tif">>)>>
    /\ calc.output = Path(TRUE, <<"plugin", "layers", "wapor", "out.tif">>)
    /\ status = "Success"

FileOf(name) ==
    files[CHOOSE k \in 1..Len(opened) : opened[k] = join(rasters_dir, name)]

\* C12: for two rasters of one shape, the expression of beneficial_fraction
\* is a quotient whose numerator reference is bound to the T file and whose
\* denominator reference to the AETI file, and the written pixel is T / AETI
\* wherever T is valid and AETI is valid and not zero; likewise TBP / AETI x
\* 100 in biomass_water_productivity and Y / AETI x 100 in
\* crop_water_productivity.
C12_QuotientBinding ==
    (/\ pc = "returned"
     /\ op.name \in {"beneficial_fraction", "biomass_water_productivity",
                     "crop_water_productivity"}
     /\ status = "Success")
    => LET bf      == op.name = "beneficial_fraction"
           numName == IF op.name = "biomass_water_productivity"
                      THEN op.ins[2] ELSE op.ins[1]
           denName == IF op.name = "biomass_water_productivity"
                      THEN op.ins[1] ELSE op.ins[2]
           q       == IF bf THEN calc.expr ELSE calc.expr.l
           T       == FileOf(numName)
           A       == FileOf(denName)
       IN  /\ bf \/ (calc.expr.op = "*" /\ calc.expr.r = Lit(Literal(100, 0)))
           /\ q.t = "bin" /\ q.op = "/" /\ q.l.t = "ref" /\ q.r.t = "ref"
           /\ calc.entries[q.l.i].path = join(rasters_dir, numName)
           /\ calc.entries[q.l.i].raster = T
           /\ calc.entries[q.r.i].path = join(rasters_dir, denName)
           /\ calc.entries[q.r.i].raster = A
           /\ \A i \in 1..Len(output.px) :
                 (T.px[i] >= 0 /\ A.px[i] > 0)
                 => output.px[i] = Fin(T.px[i] * (IF bf THEN 1 ELSE 100), A.px[i])

C12_Witness ==
    /\ pc = "returned"
    /\ op.name = "beneficial_fraction"
    /\ status = "Success"
    /\ FileOf(op.ins[1]).px = <<20, 0>>
    /\ FileOf(op.ins[2]).px = <<10, 10>>
    /\ output.px = <<Int2F(2), Int2F(0)>>

\* the position of the primary raster among the call's raster arguments: the
\* AETI argument, or the only one
PrimaryArg ==
    IF op.name \in {"beneficial_fraction", "crop_water_productivity"} THEN 2 ELSE 1

\* C13: every call that builds a raster calculator gives it the extent, the
\* width and the height of one and the same input raster, the AETI raster if
\* the operation has one and its only raster otherwise, and a raster it
\* writes has that geometry.
C13_GeometryFromPrimaryRaster ==
    (pc = "returned" /\ calc.invoked)
    => LET P == FileOf(op.ins[PrimaryArg])
       IN  /\ calc.extent = P.extent
           /\ calc.width = P.w
           /\ calc.height = P.h
           /\ output.written
              => (output.extent = P.extent /\ output.w = P.w /\ output.h = P.h)

C13_Witness ==
    /\ pc = "returned"
    /\ op.name = "crop_water_productivity"
    /\ status = "Success"
    /\ FileOf(op.ins[1]).w # FileOf(op.ins[2]).w
    /\ FileOf(op.ins[1]).extent # FileOf(op.ins[2]).extent
    /\ output.w = FileOf(op.ins[2]).w
    /\ output.extent = FileOf(op.ins[2]).extent

\* C14: the array _get_array returns has the shape of the band and, pixel by
\* pixel, NaN if and only if the raw value is below zero and the raw value
\* itself otherwise (zero included), whatever nan_value it was given; masking
\* the returned array again changes nothing.
C14_LoadMasksNegatives ==
    (pc = "returned" /\ op.name = "_get_array" /\ outcome = "ndarray")
    => /\ loaded.h = files[1].h
       /\ loaded.w = files[1].w
       /\ Len(loaded.px) = Len(files[1].px)
       /\ \A i \in 1..Len(files[1].px) :
             /\ IsNaN(loaded.px[i]) <=> files[1].px[i] < 0
             /\ files[1].px[i] >= 0 => loaded.px[i] = Int2F(files[1].px[i])
       /\ Mask(loaded) = loaded

C14_Witness ==
    /\ pc = "returned"
    /\ op.name = "_get_array"
    /\ op.factors = <<Int2F(0)>>
    /\ files[1].px = <<-1, 0, 10>>
    /\ loaded.px = <<NaN, Int2F(0), Int2F(10)>>

\* C15: whenever the two input rasters of beneficial_fraction,
\* overall_consumed_ratio, field_application_ratio or depleted_fraction
\* differ in width or height, the call ends with ShapeMismatch: no raster
\* calculator is built and no raster is written.
C15_EveryPairOperationChecksShape ==
    (/\ pc = "returned"
     /\ op.name \in {"beneficial_fraction", "overall_consumed_ratio",
                     "field_application_ratio", "depleted_fraction"}
     /\ ~SameShape(files[1], files[2]))
    => (/\ outcome = "ShapeMismatch"
        /\ ~calc.invoked
        /\ ~output.written)

\* C16: for two rasters of one shape, biomass_water_productivity and
\* crop_water_productivity never fail on a denominator (AETI) pixel that is
\* zero or no-data (raw value below zero): the calculator is run and writes
\* the raster, the mean/standard-deviation text is published, the written
\* pixel is not finite wherever the denominator is zero or no-data, and a
\* pixel that is a positive value over zero makes the published mean
\* infinite.
C16_ZeroOrNoDataDenominator ==
    (/\ pc = "returned"
     /\ op.name \in {"biomass_water_productivity", "crop_water_productivity"})
    => LET A == FileOf(IF op.name = "biomass_water_productivity"
                       THEN op.ins[1] ELSE op.ins[2])
           T == FileOf(IF op.name = "biomass_water_productivity"
                       THEN op.ins[2] ELSE op.ins[1])
       IN  /\ outcome = "None"
           /\ calc.invoked
           /\ status = "Success"
           /\ output.written
           /\ label.set
           /\ label.fmt = "mean = {}, \nstandard deviation = {}"
           /\ (\E i \in 1..Len(A.px) : A.px[i] = 0 /\ T.px[i] > 0)
              => label.a = Inf(1)
           /\ \A i \in 1..Len(A.px) : A.px[i] <= 0 => ~IsFin(output.px[i])

\* C17: no step changes plugin_dir or the catalog; a step that changes
\* rasters_dir is a setRastersDir (no call has started or ended, and the new
\* value is join(plugin_dir, argument)); a step in which an operation ends,
\* successfully or not, leaves rasters_dir as it was.
C17_OnlySetRastersDirMoves ==
    [][/\ plugin_dir' = plugin_dir
       /\ catalog' = catalog
       /\ rasters_dir' # rasters_dir
          => (/\ pc = "idle" /\ pc' = "idle"
              /\ op' = op
              /\ rasters_dir' = join(plugin_dir, lastPath'))
       /\ pc' = "returned" => rasters_dir' = rasters_dir]_vars

C17_Witness ==
    /\ pc = "returned"
    /\ outcome = "AttributeError"
    /\ lastPath = Path(TRUE, <<"data">>)
    /\ rasters_dir = Path(TRUE, <<"data">>)
    /\ plugin_dir = PluginDir
    /\ catalog = INDICATORS_INFO

\* C18: whatever status the calculator returns, total_biomass_production,
\* biomass_water_productivity, yield_indicator and crop_water_productivity
\* return None with the mean/standard-deviation text set after the calculator
\* ran, and relative_water_deficit returns None with its text set before the
\* calculator ran; the numbers total_biomass_production publishes are those
\* of its input whether or not the raster was written.
C18_CalculatorStatusIgnored ==
    (/\ pc = "returned"
     /\ calc.invoked
     /\ op.name \in {"total_biomass_production", "biomass_water_productivity",
                     "yield_indicator", "crop_water_productivity",
                     "relative_water_deficit"})
    => LET rwd == op.name = "relative_water_deficit"
           v   == ValidRaw(files[1])
       IN  /\ outcome = "None"
           /\ status \in {"Success", "ParserError", "InputLayerError",
                          "CreateOutputError"}
           /\ output.written <=> status = "Success"
           /\ label.set
           /\ label.fmt = IF rwd THEN "Relative water deficit = {}"
                          ELSE "mean = {}, \nstandard deviation = {}"
           /\ events = IF rwd THEN <<"setText", "processCalculation">>
                       ELSE <<"processCalculation", "setText">>
           /\ op.name = "total_biomass_production"
              => IF Len(v) = 0 THEN IsNaN(label.a) /\ IsNaN(label.b)
                 ELSE /\ label.a = Round(Fin(IntSum(v) * 22222, Len(v) * 1000000), 2)
                      /\ VarTimesN2(v) = 0 => label.b = Int2F(0)

C18_Witness ==
    /\ pc = "returned"
    /\ op.name = "total_biomass_production"
    /\ status = "CreateOutputError"
    /\ ~output.written
    /\ label.a = Fin(22, 100)
    /\ label.b = Int2F(0)
    /\ events = <<"processCalculation", "setText">>

=============================================================================
